---- MODULE Spec2Model ----
(***************************************************************************)
(* Model of the FNOL claims agent (src/main.py): pdf_to_text,              *)
(* extract_fields, find_missing_fields, parse_amount, route_claim and      *)
(* process_fnol.                                                           *)
(*                                                                         *)
(* A Python str the program inspects character by character (the document  *)
(* text, a field value, an amount) is a sequence of one-character strings. *)
(* A str the program only builds (a routing label, a justification) is a   *)
(* TLA+ string.  Python's None is the value None below.                    *)
(***************************************************************************)
EXTENDS Integers, Sequences, FiniteSets, TLC

VARIABLES pc, doc, text, fields, missing, route, reason, arg, est, result, calls

vars == <<pc, doc, text, fields, missing, route, reason, arg, est, result, calls>>

\* ------------------------------------------------------------ bounds

\* Longest amount string parse_amount is called with, beyond the samples.
MaxAmountLen == 3

\* Most catalog keys that are absent, None or blank in a mapping handed to
\* find_missing_fields.
MaxOdd == 2

\* Most consecutive blocks of the form that a generated document leaves out.
MaxOmit == 2

\* ------------------------------------------------------------ Python values

\* None: a one-element sequence whose element is no character, so it differs
\* from every str, the empty str included.
None == <<"None">>

\* The 16-entry catalog.
MANDATORY_FIELDS ==
    << "policy_number", "policyholder_name", "effective_dates",
       "incident_date", "incident_time", "incident_location",
       "incident_description", "claimant", "third_parties",
       "contact_details", "asset_type", "asset_id",
       "estimated_damage", "claim_type", "attachments",
       "initial_estimate" >>

FieldNames == {MANDATORY_FIELDS[k] : k \in 1..Len(MANDATORY_FIELDS)}

\* bool(v) for v a str or None.
Truthy(v) == v # None /\ v # <<>>

\* a or b
Or(a, b) == IF Truthy(a) THEN a ELSE b

\* dict.get(k): None when the key is not in the mapping.
Get(f, k) == IF k \in DOMAIN f THEN f[k] ELSE None

\* ------------------------------------------------------------ characters

UpperSeq == << "A","B","C","D","E","F","G","H","I","J","K","L","M",
               "N","O","P","Q","R","S","T","U","V","W","X","Y","Z" >>
LowerSeq == << "a","b","c","d","e","f","g","h","i","j","k","l","m",
               "n","o","p","q","r","s","t","u","v","w","x","y","z" >>
DigitSeq == << "0","1","2","3","4","5","6","7","8","9" >>

Upper == {UpperSeq[k] : k \in 1..26}
Lower == {LowerSeq[k] : k \in 1..26}
Digit == {DigitSeq[k] : k \in 1..10}

\* Whitespace: what \s matches and str.strip() removes.
Space == {" ", "\t", "\n", "\r"}

LowerOf == [c \in Upper |-> LowerSeq[CHOOSE k \in 1..26 : UpperSeq[k] = c]]
UpperOf == [c \in Lower |-> UpperSeq[CHOOSE k \in 1..26 : LowerSeq[k] = c]]
DigitVal == [c \in Digit |-> (CHOOSE k \in 1..10 : DigitSeq[k] = c) - 1]

\* str.lower()
ToLower(s) == SubSeq([k \in 1..Len(s) |-> IF s[k] \in Upper THEN LowerOf[s[k]] ELSE s[k]], 1, Len(s))

\* s[a:b] with 1-based a and exclusive b.
Slice(s, a, b) == SubSeq(s, a, b - 1)

\* str.strip()
Strip(s) ==
    LET keep == {k \in 1..Len(s) : s[k] \notin Space}
    IN  IF keep = {} THEN <<>>
        ELSE LET back == {Len(s) + 1 - k : k \in keep}
                 a == CHOOSE k \in keep : \A j \in keep : k <= j
                 b == CHOOSE k \in back : \A j \in back : k <= j
             IN  Slice(s, a, Len(s) + 2 - b)

\* sub in s
Contains(s, sub) ==
    \E i \in 1..(Len(s) - Len(sub) + 1) :
        \A k \in 1..Len(sub) : s[i + k - 1] = sub[k]

\* sep.join(names) for a list of field names.
RECURSIVE Join(_, _)
Join(names, sep) ==
    IF names = <<>> THEN ""
    ELSE IF Len(names) = 1 THEN names[1]
    ELSE names[1] \o sep \o Join(Tail(names), sep)

\* ------------------------------------------------------------ floats
\* A float that float() returns for a string of digits with at most one ".":
\* its integer part i and its fraction digits f without trailing zeros.  The
\* amounts of the model have at most 9 digits, where the decimal value, the
\* double and its repr agree.

RECURSIVE DropTrailingZeros(_)
DropTrailingZeros(d) ==
    IF d # <<>> /\ d[Len(d)] = "0" THEN DropTrailingZeros(SubSeq(d, 1, Len(d) - 1))
    ELSE d

RECURSIVE IntOfDigits(_)
IntOfDigits(d) ==
    IF d = <<>> THEN 0
    ELSE 10 * IntOfDigits(SubSeq(d, 1, Len(d) - 1)) + DigitVal[d[Len(d)]]

Zero == [i |-> 0, f |-> <<>>]

\* float(n) raises ValueError, for n without whitespace, sign or exponent: n
\* has a character that is no digit and no ".", no digit, or more than one
\* ".".
FloatRaises(n) ==
    \/ \E k \in 1..Len(n) : n[k] \notin Digit \cup {"."}
    \/ ~ \E k \in 1..Len(n) : n[k] \in Digit
    \/ Cardinality({k \in 1..Len(n) : n[k] = "."}) > 1

\* float(n) for n that does not raise.
Float(n) ==
    LET dots == {k \in 1..Len(n) : n[k] = "."}
        p    == IF dots = {} THEN Len(n) + 1 ELSE CHOOSE k \in dots : TRUE
    IN  [i |-> IntOfDigits(Slice(n, 1, p)),
         f |-> DropTrailingZeros(Slice(n, p + 1, Len(n) + 1))]

RECURSIVE Concat(_)
Concat(d) == IF d = <<>> THEN "" ELSE Head(d) \o Concat(Tail(d))

RECURSIVE IntStr(_)
IntStr(n) == IF n < 10 THEN DigitSeq[n + 1]
             ELSE IntStr(n \div 10) \o DigitSeq[(n % 10) + 1]

\* Number of leading "0" of a digit sequence.
RECURSIVE LeadingZeros(_)
LeadingZeros(d) == IF d # <<>> /\ d[1] = "0" THEN 1 + LeadingZeros(Tail(d)) ELSE 0

\* str(x) of a float, as the f-string writes it: positional with at least one
\* fraction digit, exponent notation for a value below 0.0001.
FloatStr(x) ==
    LET z == LeadingZeros(x.f)
        m == SubSeq(x.f, z + 1, Len(x.f))
    IN  IF x.i = 0 /\ x.f # <<>> /\ z >= 4
        THEN m[1] \o (IF Len(m) > 1 THEN "." \o Concat(Tail(m)) ELSE "")
                  \o "e-" \o (IF z + 1 < 10 THEN "0" ELSE "") \o IntStr(z + 1)
        ELSE IntStr(x.i) \o "." \o (IF x.f = <<>> THEN "0" ELSE Concat(x.f))

\* ------------------------------------------------------------ parse_amount

\* DigitsAndDots that removes the "$" and the "," only.
DigitsAndDots_CurrencyOnly(s) == SelectSeq(s, LAMBDA c : c \notin {"$", ","})

\* re.sub(r"[^\d\.]", "", s)
DigitsAndDots(s) == SelectSeq(s, LAMBDA c : c \in Digit \/ c = ".")

parse_amount(s) ==
    IF ~Truthy(s) THEN Zero
    ELSE LET n == DigitsAndDots(s)
         IN  IF n = <<>> THEN Zero
             ELSE IF FloatRaises(n) THEN Zero
             ELSE Float(n)

\* ------------------------------------------------------------ find_missing_fields

\* IsMissing without the strip: a blank value counts as present.
IsMissing_NoStrip(f, k) == ~Truthy(Get(f, k))

\* not f.get(k) or str(f[k]).strip() == ""
IsMissing(f, k) == ~Truthy(Get(f, k)) \/ Strip(f[k]) = <<>>

find_missing_fields(f) == SelectSeq(MANDATORY_FIELDS, LAMBDA k : IsMissing(f, k))

\* ------------------------------------------------------------ route_claim

FraudWords == << <<"f", "r", "a", "u", "d">>, <<"i", "n", "c", "o", "n", "s", "i", "s", "t", "e", "n", "t">>, <<"s", "t", "a", "g", "e", "d">> >>

FastTrackLimit == 25000

\* Estimate that never reads initial_estimate.
Estimate_NoFallback(f) == parse_amount(Get(f, "estimated_damage"))

\* Estimate that falls back when estimated_damage parses to zero.
Estimate_FallbackOnZero(f) ==
    IF parse_amount(Get(f, "estimated_damage")) # Zero
    THEN parse_amount(Get(f, "estimated_damage"))
    ELSE parse_amount(Get(f, "initial_estimate"))

\* est = parse_amount(f.get("estimated_damage") or f.get("initial_estimate"))
Estimate(f) == parse_amount(Or(Get(f, "estimated_damage"), Get(f, "initial_estimate")))

\* IsFastTrack with the limit included.
IsFastTrack_Inclusive(e) ==
    e # Zero /\ (e.i < FastTrackLimit \/ e = [i |-> FastTrackLimit, f |-> <<>>])

\* est and est < 25000: est is not 0.0 and, its fraction being below 1 and
\* the limit whole, its integer part is below the limit.
IsFastTrack(e) == e # Zero /\ e.i < FastTrackLimit

\* route_claim with the missing-fields rule after the fraud and injury rules.
route_claim_MissingLast(f, m) ==
    LET desc  == ToLower(Or(Get(f, "incident_description"), <<>>))
        ctype == ToLower(Or(Get(f, "claim_type"), <<>>))
    IN  IF \E w \in 1..Len(FraudWords) : Contains(desc, FraudWords[w])
        THEN <<"Investigation Flag", "Description contains potential fraud indicators.">>
        ELSE IF Contains(ctype, <<"i", "n", "j", "u", "r", "y">>)
        THEN <<"Specialist Queue", "Claim type indicates injury.">>
        ELSE IF m # <<>>
        THEN <<"Manual review", "Missing mandatory fields: " \o Join(m, ", ")>>
        ELSE IF IsFastTrack(Estimate(f))
        THEN <<"Fast-track", "Estimated damage " \o FloatStr(Estimate(f)) \o " < 25000.">>
        ELSE <<"Manual review", "No specific routing rule matched.">>

\* route_claim with the injury rule before the fraud rule.
route_claim_InjuryFirst(f, m) ==
    LET desc  == ToLower(Or(Get(f, "incident_description"), <<>>))
        ctype == ToLower(Or(Get(f, "claim_type"), <<>>))
    IN  IF m # <<>>
        THEN <<"Manual review", "Missing mandatory fields: " \o Join(m, ", ")>>
        ELSE IF Contains(ctype, <<"i", "n", "j", "u", "r", "y">>)
        THEN <<"Specialist Queue", "Claim type indicates injury.">>
        ELSE IF \E w \in 1..Len(FraudWords) : Contains(desc, FraudWords[w])
        THEN <<"Investigation Flag", "Description contains potential fraud indicators.">>
        ELSE IF IsFastTrack(Estimate(f))
        THEN <<"Fast-track", "Estimated damage " \o FloatStr(Estimate(f)) \o " < 25000.">>
        ELSE <<"Manual review", "No specific routing rule matched.">>

route_claim(f, m) ==
    LET desc  == ToLower(Or(Get(f, "incident_description"), <<>>))
        ctype == ToLower(Or(Get(f, "claim_type"), <<>>))
    IN  IF m # <<>>
        THEN <<"Manual review", "Missing mandatory fields: " \o Join(m, ", ")>>
        ELSE IF \E w \in 1..Len(FraudWords) : Contains(desc, FraudWords[w])
        THEN <<"Investigation Flag", "Description contains potential fraud indicators.">>
        ELSE IF Contains(ctype, <<"i", "n", "j", "u", "r", "y">>)
        THEN <<"Specialist Queue", "Claim type indicates injury.">>
        ELSE IF IsFastTrack(Estimate(f))
        THEN <<"Fast-track", "Estimated damage " \o FloatStr(Estimate(f)) \o " < 25000.">>
        ELSE <<"Manual review", "No specific routing rule matched.">>

\* ------------------------------------------------------------ re.search
\* Patterns as trees.  Every pattern of the program is compiled with
\* re.I | re.S: a letter matches in both cases and "." matches any character,
\* the newline included.

\* One character of set S (neg: one character outside S).
Cls(S)    == [t |-> "cls", s |-> S, neg |-> FALSE]
NotCls(S) == [t |-> "cls", s |-> S, neg |-> TRUE]
Dot       == NotCls({})
Cat(a)    == [t |-> "cat", a |-> a]
Alt(a)    == [t |-> "alt", a |-> a]
\* r{lo,hi}, greedy or lazy; hi = -1 is no upper limit.
Rep(r, lo, hi, greedy) == [t |-> "rep", r |-> r, lo |-> lo, hi |-> hi, greedy |-> greedy]
Star(r)     == Rep(r, 0, -1, TRUE)
Plus(r)     == Rep(r, 1, -1, TRUE)
Opt(r)      == Rep(r, 0, 1, TRUE)
LazyStar(r) == Rep(r, 0, -1, FALSE)
LazyPlus(r) == Rep(r, 1, -1, FALSE)
\* \Z
EndOfText == [t |-> "eot"]

\* Both cases of a letter (re.I).
BothCases(c) == IF c \in Upper THEN {c, LowerOf[c]}
                ELSE IF c \in Lower THEN {c, UpperOf[c]}
                ELSE {c}

\* A literal, matched case-insensitively.
Lit(s) == [t |-> "lit", a |-> SubSeq([k \in 1..Len(s) |-> BothCases(s[k])], 1, Len(s))]

\* A range such as A-Z under re.I.
Letters == Upper \cup Lower

\* The concatenation of the sequences ss[a], ..., ss[b].
RECURSIVE FlattenRange(_, _, _)
FlattenRange(ss, a, b) ==
    IF a > b THEN <<>>
    ELSE IF a = b THEN ss[a]
    ELSE LET m == (a + b) \div 2
         IN  FlattenRange(ss, a, m) \o FlattenRange(ss, m + 1, b)

Flatten(ss) == FlattenRange(ss, 1, Len(ss))

\* F(v) with v evaluated once, however often F uses its parameter.
Apply1(F(_), v) == CHOOSE r \in {F(x) : x \in {v}} : TRUE
Apply3(F(_, _, _), u, v, w) ==
    CHOOSE r \in {F(x, y, z) : x \in {u}, y \in {v}, z \in {w}} : TRUE

\* The position after the longest run of characters of class c from i on.
RunEnd(c, s, i) ==
    LET stop == {j \in i..Len(s) : (s[j] \in c.s) = c.neg}
    IN  IF stop = {} THEN Len(s) + 1 ELSE CHOOSE j \in stop : \A k \in stop : j <= k

\* One character repeated: every length from lo to the run's length (hi at
\* most), the longest first when greedy.
RunEnds(re, s, i) ==
    Apply1(LAMBDA end :
        LET max == IF re.hi >= 0 /\ re.hi < end - i THEN re.hi ELSE end - i
            n   == max - re.lo + 1
        IN  IF n <= 0 THEN <<>>
            ELSE SubSeq([k \in 1..(i + n) |->
                           IF re.greedy THEN i + max - (k - i - 1)
                           ELSE k + re.lo - 1], i + 1, i + n),
        RunEnd(re.r, s, i))

\* The positions at which a match of re that starts at position i of s can
\* end, in the order the backtracking matcher tries them.
RECURSIVE Ends(_, _, _)
Ends(re0, s0, i0) ==
    Apply3(LAMBDA re, s, i :
    CASE re.t = "cls" ->
           IF i <= Len(s) /\ ((s[i] \in re.s) # re.neg) THEN <<i + 1>> ELSE <<>>
      [] re.t = "lit" ->
           IF /\ i + Len(re.a) <= Len(s) + 1
              /\ \A k \in 1..Len(re.a) : s[i + k - 1] \in re.a[k]
           THEN <<i + Len(re.a)>> ELSE <<>>
      [] re.t = "eot" ->
           IF i = Len(s) + 1 THEN <<i>> ELSE <<>>
      [] re.t = "cat" ->
           IF re.a = <<>> THEN <<i>>
           ELSE Apply1(LAMBDA first :
                    IF first = <<>> THEN <<>>
                    ELSE Flatten([k \in 1..Len(first) |->
                                    Ends(Cat(Tail(re.a)), s, first[k])]),
                    Ends(Head(re.a), s, i))
      [] re.t = "alt" ->
           Flatten([k \in 1..Len(re.a) |-> Ends(re.a[k], s, i)])
      [] re.t = "rep" /\ re.r.t = "cls" ->
           RunEnds(re, s, i)
      [] re.t = "rep" /\ re.r.t # "cls" ->
           LET next == Rep(re.r, IF re.lo > 0 THEN re.lo - 1 ELSE 0,
                           IF re.hi > 0 THEN re.hi - 1 ELSE re.hi, re.greedy)
               stop == IF re.lo = 0 THEN <<i>> ELSE <<>>
           IN  Apply1(LAMBDA once :
                   LET more == Flatten([k \in 1..Len(once) |-> Ends(next, s, once[k])])
                   IN  IF re.greedy THEN more \o stop ELSE stop \o more,
                   IF re.hi = 0 THEN <<>>
                   ELSE SelectSeq(Ends(re.r, s, i), LAMBDA e : e > i)),
    re0, s0, i0)

\* A pattern with one group: what precedes the group, the group and what
\* follows it.
Pattern(pre, grp, post) == [pre |-> pre, grp |-> grp, post |-> post]

\* The ends b of the group started at a after which the rest of p matches.
GroupEnds(p, s, a) == SelectSeq(Ends(p.grp, s, a), LAMBDA b : Ends(p.post, s, b) # <<>>)

\* The match of p that starts at position i: <<start of group, end of group>>
\* of the first alternative the matcher accepts, <<>> when there is none.
MatchAt(p, s, i) ==
    Apply1(LAMBDA e1 :
        IF e1 = <<>> THEN <<>>
        ELSE Apply1(LAMBDA good :
                 IF good = <<>> THEN <<>> ELSE <<good[1][1], good[1][2][1]>>,
                 SelectSeq([k \in 1..Len(e1) |-> <<e1[k], GroupEnds(p, s, e1[k])>>],
                           LAMBDA g : g[2] # <<>>)),
        Ends(p.pre, s, i))

\* re.search(p, s): m.group(1) of the leftmost match, None when nothing matches.
Search(p, s) ==
    Apply1(LAMBDA starts :
        IF starts = {} THEN None
        ELSE Apply1(LAMBDA g : Slice(s, g[1], g[2]),
                    MatchAt(p, s, CHOOSE i \in starts : \A j \in starts : i <= j)),
        {i \in 1..(Len(s) + 1) : MatchAt(p, s, i) # <<>>})

\* ------------------------------------------------------------ first_group

\* first_group without the strip.
first_group_NoStrip(p, s) == Search(p, s)

first_group(p, s) ==
    Apply1(LAMBDA g : IF g = None THEN None ELSE Strip(g), Search(p, s))


\* ------------------------------------------------------------ extract_fields

ColonOrSpace == Cls({":"} \cup Space)
NL           == Cls({"\n"})
NotNL        == NotCls({"\n"})
Empty        == Cat(<<>>)
\* [$]?\s*[0-9,\.]+
Money        == Cat(<< Opt(Cls({"$"})), Star(Cls(Space)), Plus(Cls(Digit \cup {",", "."})) >>)
\* [0-9/.\-\s]
DateChars    == Cls(Digit \cup {"/", ".", "-"} \cup Space)
\* [A-HJ-NPR-Z0-9] under re.I
VinChars     == Cls((Letters \ {"I", "O", "Q", "i", "o", "q"}) \cup Digit)

\* POLICY\s*NUMBER[:\s]*([A-Z0-9\-]+)
PolicyNumberRe ==
    Pattern(Cat(<< Lit(<<"P", "O", "L", "I", "C", "Y">>), Star(Cls(Space)), Lit(<<"N", "U", "M", "B", "E", "R">>), Star(ColonOrSpace) >>),
            Plus(Cls(Letters \cup Digit \cup {"-"})), Empty)

\* NAME OF INSURED[^\n]*\n(.*)
PolicyholderNameRe ==
    Pattern(Cat(<< Lit(<<"N", "A", "M", "E", " ", "O", "F", " ", "I", "N", "S", "U", "R", "E", "D">>), Star(NotNL), NL >>), Star(Dot), Empty)

\* Effective\s*Dates?[:\s]*([0-9/.\-\s]+to[0-9/.\-\s]+)
EffectiveDatesRe ==
    Pattern(Cat(<< Lit(<<"E", "f", "f", "e", "c", "t", "i", "v", "e">>), Star(Cls(Space)), Lit(<<"D", "a", "t", "e">>), Opt(Lit(<<"s">>)),
                   Star(ColonOrSpace) >>),
            Cat(<< Plus(DateChars), Lit(<<"t", "o">>), Plus(DateChars) >>), Empty)

\* DATE OF LOSS[:\s]*([0-9]{2}/[0-9]{2}/[0-9]{4})
IncidentDateRe ==
    Pattern(Cat(<< Lit(<<"D", "A", "T", "E", " ", "O", "F", " ", "L", "O", "S", "S">>), Star(ColonOrSpace) >>),
            Cat(<< Rep(Cls(Digit), 2, 2, TRUE), Cls({"/"}), Rep(Cls(Digit), 2, 2, TRUE),
                   Cls({"/"}), Rep(Cls(Digit), 4, 4, TRUE) >>), Empty)

\* TIME[:\s]*([0-9]{1,2}:[0-9]{2}\s*(?:AM|PM)?)
IncidentTimeRe ==
    Pattern(Cat(<< Lit(<<"T", "I", "M", "E">>), Star(ColonOrSpace) >>),
            Cat(<< Rep(Cls(Digit), 1, 2, TRUE), Cls({":"}), Rep(Cls(Digit), 2, 2, TRUE),
                   Star(Cls(Space)), Opt(Alt(<< Lit(<<"A", "M">>), Lit(<<"P", "M">>) >>)) >>), Empty)

\* LOCATION OF LOSS[^\n]*\n(.*)
IncidentLocationRe ==
    Pattern(Cat(<< Lit(<<"L", "O", "C", "A", "T", "I", "O", "N", " ", "O", "F", " ", "L", "O", "S", "S">>), Star(NotNL), NL >>), Star(Dot), Empty)

\* DESCRIPTION OF ACCIDENT[^\n]*\n(.+?)(?:\n[A-Z ]{5,}:|\Z)
IncidentDescriptionRe ==
    Pattern(Cat(<< Lit(<<"D", "E", "S", "C", "R", "I", "P", "T", "I", "O", "N", " ", "O", "F", " ", "A", "C", "C", "I", "D", "E", "N", "T">>), Star(NotNL), NL >>),
            LazyPlus(Dot),
            Alt(<< Cat(<< NL, Rep(Cls(Letters \cup {" "}), 5, -1, TRUE), Cls({":"}) >>),
                   EndOfText >>))

\* CLAIMANT[:\s]*([^\n]+)
ClaimantRe ==
    Pattern(Cat(<< Lit(<<"C", "L", "A", "I", "M", "A", "N", "T">>), Star(ColonOrSpace) >>), Plus(NotNL), Empty)

\* THIRD PART(?:Y|IES)[:\s]*([^\n]+)
ThirdPartiesRe ==
    Pattern(Cat(<< Lit(<<"T", "H", "I", "R", "D", " ", "P", "A", "R", "T">>), Alt(<< Lit(<<"Y">>), Lit(<<"I", "E", "S">>) >>),
                   Star(ColonOrSpace) >>), Plus(NotNL), Empty)

\* PHONE\s*#.*?\n(.+?)(?:\n\n|\Z)
ContactDetailsRe ==
    Pattern(Cat(<< Lit(<<"P", "H", "O", "N", "E">>), Star(Cls(Space)), Cls({"#"}), LazyStar(Dot), NL >>),
            LazyPlus(Dot),
            Alt(<< Cat(<< NL, NL >>), EndOfText >>))

\* V\.?I\.?N\.?[:\s]*([A-HJ-NPR-Z0-9]{11,17})
AssetIdRe ==
    Pattern(Cat(<< Lit(<<"V">>), Opt(Cls({"."})), Lit(<<"I">>), Opt(Cls({"."})), Lit(<<"N">>),
                   Opt(Cls({"."})), Star(ColonOrSpace) >>),
            Rep(VinChars, 11, 17, TRUE), Empty)

\* ESTIMATE AMOUNT[:\s]*([$]?\s*[0-9,\.]+)
EstimatedDamageRe ==
    Pattern(Cat(<< Lit(<<"E", "S", "T", "I", "M", "A", "T", "E", " ", "A", "M", "O", "U", "N", "T">>), Star(ColonOrSpace) >>), Money, Empty)

\* CLAIM TYPE[:\s]*([^\n]+)
ClaimTypeRe ==
    Pattern(Cat(<< Lit(<<"C", "L", "A", "I", "M", " ", "T", "Y", "P", "E">>), Star(ColonOrSpace) >>), Plus(NotNL), Empty)

\* ATTACHMENT
AttachmentRe == Pattern(Lit(<<"A", "T", "T", "A", "C", "H", "M", "E", "N", "T">>), Empty, Empty)

\* INITIAL ESTIMATE[:\s]*([$]?\s*[0-9,\.]+)
InitialEstimateRe ==
    Pattern(Cat(<< Lit(<<"I", "N", "I", "T", "I", "A", "L", " ", "E", "S", "T", "I", "M", "A", "T", "E">>), Star(ColonOrSpace) >>), Money, Empty)

extract_fields(t) ==
    [ policy_number        |-> first_group(PolicyNumberRe, t),
      policyholder_name    |-> first_group(PolicyholderNameRe, t),
      effective_dates      |-> first_group(EffectiveDatesRe, t),
      incident_date        |-> first_group(IncidentDateRe, t),
      incident_time        |-> first_group(IncidentTimeRe, t),
      incident_location    |-> first_group(IncidentLocationRe, t),
      incident_description |-> first_group(IncidentDescriptionRe, t),
      claimant             |-> first_group(ClaimantRe, t),
      third_parties        |-> first_group(ThirdPartiesRe, t),
      contact_details      |-> first_group(ContactDetailsRe, t),
      asset_type           |-> <<"V", "e", "h", "i", "c", "l", "e">>,
      asset_id             |-> first_group(AssetIdRe, t),
      estimated_damage     |-> first_group(EstimatedDamageRe, t),
      claim_type           |-> first_group(ClaimTypeRe, t),
      attachments          |-> IF Search(AttachmentRe, t) # None THEN <<"Y", "e", "s">> ELSE <<"U", "n", "k", "n", "o", "w", "n">>,
      initial_estimate     |-> first_group(InitialEstimateRe, t) ]

\* ------------------------------------------------------------ pdf_to_text

\* "\n".join(parts) for a list of str.
RECURSIVE JoinLines(_)
JoinLines(parts) ==
    IF parts = <<>> THEN <<>>
    ELSE IF Len(parts) = 1 THEN parts[1]
    ELSE parts[1] \o <<"\n">> \o JoinLines(Tail(parts))

\* A document that opens: the texts of its pages, None for a page
\* extract_text() returns None for.
pdf_to_text(pages) == JoinLines([k \in 1..Len(pages) |-> Or(pages[k], <<>>)])


\* ------------------------------------------------------------ inputs

\* The blocks of a loss-notice form, in form order, for a description d, an
\* estimate a and a claim type c.
Form(d, a, c) ==
    << <<"P", "O", "L", "I", "C", "Y", " ", "N", "U", "M", "B", "E", "R", ":", " ", "A", "-", "1">>,
       <<"N", "A", "M", "E", " ", "O", "F", " ", "I", "N", "S", "U", "R", "E", "D", "\n", "J", " ", "D">>,
       <<"E", "f", "f", "e", "c", "t", "i", "v", "e", " ", "D", "a", "t", "e", "s", ":", " ", "1", "/", "1", " ", "t", "o", " ", "2", "/", "2">>,
       <<"D", "A", "T", "E", " ", "O", "F", " ", "L", "O", "S", "S", ":", " ", "0", "1", "/", "0", "2", "/", "2", "0", "2", "4", " ", "T", "I", "M", "E", ":", " ", "9", ":", "3", "0", " ", "A", "M">>,
       <<"L", "O", "C", "A", "T", "I", "O", "N", " ", "O", "F", " ", "L", "O", "S", "S", "\n", "O", "a", "k", " ", "S", "t">>,
       <<"D", "E", "S", "C", "R", "I", "P", "T", "I", "O", "N", " ", "O", "F", " ", "A", "C", "C", "I", "D", "E", "N", "T", "\n">> \o d \o <<"\n", "R", "E", "M", "A", "R", "K", "S", ":">>,
       <<"C", "L", "A", "I", "M", "A", "N", "T", ":", " ", "B", "o", "b">>,
       <<"T", "H", "I", "R", "D", " ", "P", "A", "R", "T", "Y", ":", " ", "A", "l">>,
       <<"P", "H", "O", "N", "E", " ", "#", " ", "(", "A", "/", "C", ")", "\n", "5", "5", "5", "\n">>,
       <<"V", ".", "I", ".", "N", ".", ":", " ", "1", "H", "G", "C", "M", "8", "2", "6", "3", "3", "A">>,
       <<"E", "S", "T", "I", "M", "A", "T", "E", " ", "A", "M", "O", "U", "N", "T", ":", " ">> \o a,
       <<"C", "L", "A", "I", "M", " ", "T", "Y", "P", "E", ":", " ">> \o c,
       <<"A", "T", "T", "A", "C", "H", "M", "E", "N", "T", "S">>,
       <<"I", "N", "I", "T", "I", "A", "L", " ", "E", "S", "T", "I", "M", "A", "T", "E", ":", " ", "$", "5", ",", "0", "0", "0">> >>

FormLen == Len(Form(<<>>, <<>>, <<>>))

\* <<description, estimate, claim type>> of the generated forms.
FormValues ==
    { << <<"r", "e", "a", "r", " ", "h", "i", "t">>,   <<"$", "1", "2", ",", "0", "0", "0", ".", "0", "0">>, <<"C", "o", "l", "l", "i", "s", "i", "o", "n">> >>,
      << <<"S", "t", "a", "g", "e", "d", " ", "h", "i", "t">>, <<"$", "1", "2", ",", "0", "0", "0", ".", "0", "0">>, <<"B", "o", "d", "i", "l", "y", " ", "I", "n", "j", "u", "r", "y">> >>,
      << <<"r", "e", "a", "r", " ", "h", "i", "t">>,   <<"$", "1", "2", ",", "0", "0", "0", ".", "0", "0">>, <<"B", "o", "d", "i", "l", "y", " ", "I", "n", "j", "u", "r", "y">> >>,
      << <<"r", "e", "a", "r", " ", "h", "i", "t">>,   <<"2", "5", "0", "0", "0">>,      <<"C", "o", "l", "l", "i", "s", "i", "o", "n">> >> }

\* The form without its blocks from..from+n-1.
Omit(form, from, n) ==
    SubSeq(form, 1, from - 1) \o SubSeq(form, from + n, Len(form))

\* How the blocks lie on pages: on one page, on two pages, or on two pages
\* with a page between them whose text cannot be extracted.
Layouts == {"one", "two", "gap"}

Pages(blocks, layout) ==
    LET h == Len(blocks) \div 2
    IN  CASE layout = "one" -> << JoinLines(blocks) >>
          [] layout = "two" -> << JoinLines(SubSeq(blocks, 1, h)),
                                  JoinLines(SubSeq(blocks, h + 1, Len(blocks))) >>
          [] layout = "gap" -> << JoinLines(SubSeq(blocks, 1, h)), None,
                                  JoinLines(SubSeq(blocks, h + 1, Len(blocks))) >>

FormDocuments ==
    { [opens |-> TRUE, pages |-> Pages(Omit(Form(v[1], v[2], v[3]), from, n), layout)] :
        v \in FormValues, layout \in Layouts,
        from \in 1..FormLen, n \in 0..MaxOmit } 

\* Texts that are no form.
OddTexts ==
    { <<>>, <<"a", "t", "t", "a", "c", "h", "m", "e", "n", "t">>, <<"N", "A", "M", "E", " ", "O", "F", " ", "I", "N", "S", "U", "R", "E", "D">>, <<"C", "L", "A", "I", "M", "A", "N", "T", ":", " ", "\n", "X">>,
      <<"N", "A", "M", "E", " ", "O", "F", " ", "I", "N", "S", "U", "R", "E", "D", " ", "(", "F", "I", "R", "S", "T", ",", " ", "L", "A", "S", "T", ")", "\n", " ", " ", "J", " ", "D", " ", " ", "\n", "L", "O", "C", "A", "T", "I", "O", "N", " ", "O", "F", " ", "L", "O", "S", "S", "\n", "\n", " ", "O", "a", "k", " ", "S", "t", " ", "\n", " ", "x">>,
      <<"P", "O", "L", "I", "C", "Y", " ", "N", "U", "M", "B", "E", "R", " ", "P", "O", "L", "I", "C", "Y", " ", "N", "U", "M", "B", "E", "R", ":", " ", "7", "\n", "E", "S", "T", "I", "M", "A", "T", "E", " ", "A", "M", "O", "U", "N", "T", ":", " ", "$", " ", "1", ",", "2", "\n", "T", "I", "M", "E", ":", " ", "1", ":", "5">> }

OddDocuments ==
    { [opens |-> TRUE, pages |-> <<>>], [opens |-> TRUE, pages |-> <<None>>],
      [opens |-> TRUE, pages |-> <<None, None>>] }
    \cup { [opens |-> TRUE, pages |-> <<t>>] : t \in OddTexts }

\* A document pdfplumber.open() raises on (no file, no PDF).
Unreadable == [opens |-> FALSE, pages |-> <<>>]

Documents == FormDocuments \cup OddDocuments \cup {Unreadable}


\* Amount strings: every string of at most MaxAmountLen of these characters,
\* and the samples.
AmountChars == {"0", "2", "5", ".", "$", "x"}

AmountSamples ==
    { None, <<"$", "1", ",", "2", "3", "4", ".", "5", "6">>, <<"a", "b", "c">>, <<"1", ".", "2", ".", "3">>, <<"N", "/", "A">>, <<"$", "1", "2", ",", "0", "0", "0", ".", "0", "0">>, <<"$", "5", ",", "0", "0", "0">>,
      <<"2", "5", "0", "0", "0">>, <<"2", "4", "9", "9", "9", ".", "9", "9">>, <<"2", "5", "0", "0", "0", ".", "0", "1">>, <<"0", ".", "0", "0", "0", "0", "1">>, <<"0", "0", ".", "0", "0", "0">>, <<" ">>, <<"-", "5">>,
      <<"U", "S", "D", " ", "7", ".", "5", "0", " ">> }

Amounts ==
    AmountSamples \cup UNION { [1..n -> AmountChars] : n \in 0..MaxAmountLen }

\* Mappings for find_missing_fields: every catalog key has the value "x" but
\* at most MaxOdd keys, each of which is not in the mapping, None, empty or
\* blank.
OddKinds == {"absent", "none", "empty", "blank"}

OddValue(kind) ==
    CASE kind = "none"  -> None
      [] kind = "empty" -> <<>>
      [] kind = "blank" -> <<" ", "\t", "\n">>

WithOdd(kinds) ==
    [k \in FieldNames \ {j \in DOMAIN kinds : kinds[j] = "absent"} |->
        IF k \in DOMAIN kinds THEN OddValue(kinds[k]) ELSE <<"x">>]

CheckedMappings ==
    { WithOdd(kinds) :
        kinds \in UNION { [D -> OddKinds] :
                            D \in {S \in SUBSET FieldNames : Cardinality(S) <= MaxOdd} } }

\* Mappings for route_claim: the four values it reads, the other keys "x";
\* bare: a None value is left out of the mapping and so are the other keys.
DescriptionValues ==
    { None, <<>>, <<"m", "i", "n", "o", "r", " ", "d", "e", "n", "t">>, <<"S", "t", "a", "g", "e", "d", " ", "c", "r", "a", "s", "h">>, <<"p", "o", "s", "s", "i", "b", "l", "e", " ", "F", "R", "A", "U", "D">>,
      <<"i", "n", "c", "o", "n", "s", "i", "s", "t", "e", "n", "t", " ", "s", "t", "o", "r", "y">> }
ClaimTypeValues == { None, <<"C", "o", "l", "l", "i", "s", "i", "o", "n">>, <<"B", "o", "d", "i", "l", "y", " ", "I", "n", "j", "u", "r", "y">>, <<"I", "N", "J", "U", "R", "Y">> }
DamageValues ==
    { None, <<>>, <<" ">>, <<"N", "/", "A">>, <<"$", "1", "2", ",", "0", "0", "0", ".", "0", "0">>, <<"2", "5", "0", "0", "0">>, <<"2", "4", "9", "9", "9", ".", "9", "9">>, <<"0">>,
      <<"0", ".", "0", "0", "0", "0", "1">> }
InitialValues == { None, <<"$", "5", ",", "0", "0", "0">>, <<"3", "0", "0", "0", "0">> }

RoutedKeys == {"incident_description", "claim_type", "estimated_damage", "initial_estimate"}

RoutedMapping(d, c, a, e, bare) ==
    LET v == [ incident_description |-> d, claim_type |-> c,
               estimated_damage |-> a, initial_estimate |-> e ]
    IN  [k \in IF bare THEN {j \in RoutedKeys : v[j] # None} ELSE FieldNames |->
            IF k \in RoutedKeys THEN v[k] ELSE <<"x">>]

RoutedMappings ==
    { RoutedMapping(d, c, a, e, bare) :
        d \in DescriptionValues, c \in ClaimTypeValues, a \in DamageValues,
        e \in InitialValues, bare \in BOOLEAN }

\* The missing lists route_claim is called with for f: the one
\* find_missing_fields computes, the empty one and one that is neither.
MissingLists(f) ==
    { find_missing_fields(f), <<>>, <<"policy_number", "claim_type">> }

\* ------------------------------------------------------------ state

NoFields == [k \in {} |-> None]
NoResult == [returned |-> FALSE]

Init ==
    /\ pc = "idle"
    /\ doc = Unreadable
    /\ text = <<>>
    /\ fields = NoFields
    /\ missing = <<>>
    /\ route = ""
    /\ reason = ""
    /\ arg = None
    /\ est = Zero
    /\ result = NoResult
    /\ calls = <<>>

\* ------------------------------------------------------------ process_fnol

\* text = pdf_to_text(path), the document opens
PdfToText ==
    /\ pc = "idle"
    /\ \E d \in Documents :
         /\ d.opens
         /\ doc' = d
         /\ text' = pdf_to_text(d.pages)
    /\ calls' = Append(calls, "pdf_to_text")
    /\ pc' = "extract_fields"
    /\ UNCHANGED <<fields, missing, route, reason, arg, est, result>>

\* text = pdf_to_text(path), pdfplumber.open raises: process_fnol ends
PdfToTextRaises ==
    /\ pc = "idle"
    /\ \E d \in Documents :
         /\ ~d.opens
         /\ doc' = d
    /\ calls' = Append(calls, "pdf_to_text")
    /\ pc' = "raised"
    /\ UNCHANGED <<text, fields, missing, route, reason, arg, est, result>>

\* fields = extract_fields(text)
ExtractFields ==
    /\ pc = "extract_fields"
    /\ fields' = extract_fields(text)
    /\ calls' = Append(calls, "extract_fields")
    /\ pc' = "find_missing_fields"
    /\ UNCHANGED <<doc, text, missing, route, reason, arg, est, result>>

\* missing = find_missing_fields(fields)
FindMissingFields ==
    /\ pc = "find_missing_fields"
    /\ missing' = find_missing_fields(fields)
    /\ calls' = Append(calls, "find_missing_fields")
    /\ pc' = "route_claim"
    /\ UNCHANGED <<doc, text, fields, route, reason, arg, est, result>>

\* RouteClaim that does not hand the missing list to the router.
RouteClaim_IgnoresMissing ==
    /\ pc = "route_claim"
    /\ route' = route_claim(fields, <<>>)[1]
    /\ reason' = route_claim(fields, <<>>)[2]
    /\ calls' = Append(calls, "route_claim")
    /\ pc' = "return"
    /\ UNCHANGED <<doc, text, fields, missing, arg, est, result>>

\* route, reason = route_claim(fields, missing)
RouteClaim ==
    /\ pc = "route_claim"
    /\ route' = route_claim(fields, missing)[1]
    /\ reason' = route_claim(fields, missing)[2]
    /\ calls' = Append(calls, "route_claim")
    /\ pc' = "return"
    /\ UNCHANGED <<doc, text, fields, missing, arg, est, result>>

\* return {...}
Return ==
    /\ pc = "return"
    /\ result' = [ returned |-> TRUE,
                   extractedFields |-> fields,
                   missingFields |-> missing,
                   recommendedRoute |-> route,
                   reasoning |-> reason ]
    /\ pc' = "returned"
    /\ UNCHANGED <<doc, text, fields, missing, route, reason, arg, est, calls>>

\* ------------------------------------------------------------ direct calls

\* find_missing_fields(f)
CallFindMissingFields ==
    /\ pc = "idle"
    /\ \E f \in CheckedMappings :
         /\ fields' = f
         /\ missing' = find_missing_fields(f)
    /\ pc' = "find_missing_fields returned"
    /\ UNCHANGED <<doc, text, route, reason, arg, est, result, calls>>

\* route_claim(f, m)
CallRouteClaim ==
    /\ pc = "idle"
    /\ \E f \in RoutedMappings : \E m \in MissingLists(f) :
         /\ fields' = f
         /\ missing' = m
         /\ route' = route_claim(f, m)[1]
         /\ reason' = route_claim(f, m)[2]
    /\ pc' = "route_claim returned"
    /\ UNCHANGED <<doc, text, arg, est, result, calls>>

\* parse_amount(s)
CallParseAmount ==
    /\ pc = "idle"
    /\ \E s \in Amounts :
         /\ arg' = s
         /\ est' = parse_amount(s)
    /\ pc' = "parse_amount returned"
    /\ UNCHANGED <<doc, text, fields, missing, route, reason, result, calls>>

Next ==
    \/ PdfToText
    \/ PdfToTextRaises
    \/ ExtractFields
    \/ FindMissingFields
    \/ RouteClaim
    \/ Return
    \/ CallFindMissingFields
    \/ CallRouteClaim
    \/ CallParseAmount

Spec == Init /\ [][Next]_vars


\* ------------------------------------------------------------ properties

\* The value of key k read as text: empty when k is absent or None.
TextOf(f, k) == IF Get(f, k) = None THEN <<>> ELSE f[k]

\* word occurs in s, whatever the case of the letters of s.
OccursIn(word, s) ==
    \E i \in 1..(Len(s) - Len(word) + 1) :
        \A k \in 1..Len(word) : s[i + k - 1] \in BothCases(word[k])

HasFraudWord(f) ==
    \/ OccursIn(<<"f", "r", "a", "u", "d">>, TextOf(f, "incident_description"))
    \/ OccursIn(<<"i", "n", "c", "o", "n", "s", "i", "s", "t", "e", "n", "t">>, TextOf(f, "incident_description"))
    \/ OccursIn(<<"s", "t", "a", "g", "e", "d">>, TextOf(f, "incident_description"))

HasInjury(f) == OccursIn(<<"i", "n", "j", "u", "r", "y">>, TextOf(f, "claim_type"))

\* route_claim has returned for fields and missing.
RouteReturned == pc \in {"route_claim returned", "return", "returned"}

\* The position of name in the catalog.
CatalogIndex(name) == CHOOSE k \in 1..Len(MANDATORY_FIELDS) : MANDATORY_FIELDS[k] = name

\* The names of a list, comma-joined.
RECURSIVE CommaList(_)
CommaList(names) ==
    IF Len(names) = 0 THEN ""
    ELSE CommaList(SubSeq(names, 1, Len(names) - 1))
         \o (IF Len(names) > 1 THEN ", " ELSE "") \o names[Len(names)]

\* C1: with a non-empty missing list route_claim returns "Manual review" and
\* "Missing mandatory fields: " followed by the comma-joined names, whatever
\* the description, the claim type and the estimates are; so a ClaimResult
\* with a non-empty missingFields has recommendedRoute "Manual review".
C1_MissingRoutesToManualReview ==
    /\ (RouteReturned /\ missing # <<>>) =>
          /\ route = "Manual review"
          /\ reason = "Missing mandatory fields: " \o CommaList(missing)
    /\ (RouteReturned /\ missing = <<"policy_number", "claim_type">>) =>
          reason = "Missing mandatory fields: policy_number, claim_type"
    /\ (pc = "returned" /\ result.missingFields # <<>>) =>
          result.recommendedRoute = "Manual review"

C1_Witness ==
    /\ pc = "route_claim returned"
    /\ Len(missing) = 2
    /\ HasFraudWord(fields)
    /\ HasInjury(fields)
    /\ TextOf(fields, "estimated_damage") = <<"$", "1", "2", ",", "0", "0", "0", ".", "0", "0">>
    /\ route = "Manual review"

\* The value of k is absent, None, or has only whitespace.
AbsentOrBlank(f, k) ==
    \/ k \notin DOMAIN f
    \/ f[k] = None
    \/ \A j \in 1..Len(f[k]) : f[k][j] \in Space

\* find_missing_fields has returned missing for fields.
MissingReturned == pc \in {"find_missing_fields returned", "route_claim", "return", "returned"}

\* C2: find_missing_fields(f) is the subsequence of the catalog, in catalog
\* order and without duplicates, of the keys whose value is absent or empty
\* after trimming; no key with a non-blank value and no key outside the
\* catalog is in it.
C2_MissingIsCatalogSubsequence ==
    MissingReturned =>
        /\ \A j \in 1..Len(missing) : missing[j] \in FieldNames
        /\ \A j \in 1..(Len(missing) - 1) :
              CatalogIndex(missing[j]) < CatalogIndex(missing[j + 1])
        /\ \A k \in FieldNames :
              (\E j \in 1..Len(missing) : missing[j] = k) <=> AbsentOrBlank(fields, k)

C2_Witness ==
    /\ pc = "find_missing_fields returned"
    /\ Len(missing) = 2
    /\ \E k \in FieldNames : k \notin DOMAIN fields
    /\ \E k \in DOMAIN fields : fields[k] = <<" ", "\t", "\n">>

\* C3: with an empty missing list, a description with "fraud", "inconsistent"
\* or "staged" in any case gives "Investigation Flag", even with an injury
\* claim type and an estimate below 25000; otherwise a claim type with
\* "injury" gives "Specialist Queue", whatever the estimates are.
C3_FraudThenInjury ==
    (RouteReturned /\ missing = <<>>) =>
        /\ HasFraudWord(fields) =>
              /\ route = "Investigation Flag"
              /\ reason = "Description contains potential fraud indicators."
        /\ (~HasFraudWord(fields) /\ HasInjury(fields)) =>
              /\ route = "Specialist Queue"
              /\ reason = "Claim type indicates injury."

C3_Witness ==
    /\ pc = "route_claim returned"
    /\ missing = <<>>
    /\ TextOf(fields, "incident_description") = <<"S", "t", "a", "g", "e", "d", " ", "c", "r", "a", "s", "h">>
    /\ TextOf(fields, "claim_type") = <<"B", "o", "d", "i", "l", "y", " ", "I", "n", "j", "u", "r", "y">>
    /\ TextOf(fields, "estimated_damage") = <<"$", "1", "2", ",", "0", "0", "0", ".", "0", "0">>
    /\ route = "Investigation Flag"


\* k has a str value in f.
Present(f, k) == k \in DOMAIN f /\ f[k] # None

\* No rule before the amount rule applies.
AmountDecides(f, m) == m = <<>> /\ ~HasFraudWord(f) /\ ~HasInjury(f)

\* What the amount rule and the default rule return for the amount e.
AmountRoute(e) ==
    IF e # Zero /\ e.i <= 24999
    THEN <<"Fast-track", "Estimated damage " \o FloatStr(e) \o " < 25000.">>
    ELSE <<"Manual review", "No specific routing rule matched.">>

\* C4 as claimed: est is parse_amount(estimated_damage) whenever
\* estimated_damage is present as a string, the empty string included, and
\* initial_estimate is read only when estimated_damage is absent.
C4_PresentNeverFallsBack ==
    (RouteReturned /\ AmountDecides(fields, missing)) =>
        <<route, reason>> =
            AmountRoute(IF Present(fields, "estimated_damage")
                        THEN parse_amount(fields["estimated_damage"])
                        ELSE parse_amount(Get(fields, "initial_estimate")))

\* C4, amended: est is parse_amount(estimated_damage) whenever
\* estimated_damage is a non-empty string (blank, unparsable or zero
\* included), and initial_estimate is read when estimated_damage is absent,
\* None or the empty string; "N/A" with an initial estimate of "$5,000" is
\* routed to "Manual review".
C4_NonEmptyNeverFallsBack ==
    (RouteReturned /\ AmountDecides(fields, missing)) =>
        /\ <<route, reason>> =
              AmountRoute(IF Present(fields, "estimated_damage")
                             /\ fields["estimated_damage"] # <<>>
                          THEN parse_amount(fields["estimated_damage"])
                          ELSE parse_amount(Get(fields, "initial_estimate")))
        /\ (/\ TextOf(fields, "estimated_damage") = <<"N", "/", "A">>
            /\ TextOf(fields, "initial_estimate") = <<"$", "5", ",", "0", "0", "0">>) =>
              <<route, reason>> = <<"Manual review", "No specific routing rule matched.">>

C4_Witness ==
    /\ pc = "route_claim returned"
    /\ AmountDecides(fields, missing)
    /\ TextOf(fields, "estimated_damage") = <<"N", "/", "A">>
    /\ TextOf(fields, "initial_estimate") = <<"$", "5", ",", "0", "0", "0">>
    /\ route = "Manual review"

\* estimated_damage is absent, initial_estimate is "$5,000", every other
\* mandatory field has a value, and neither the fraud nor the injury rule
\* applies.
FallbackCase(f) ==
    /\ Get(f, "estimated_damage") = None
    /\ Get(f, "initial_estimate") = <<"$", "5", ",", "0", "0", "0">>
    /\ \A k \in FieldNames \ {"estimated_damage"} : ~AbsentOrBlank(f, k)
    /\ ~HasFraudWord(f)
    /\ ~HasInjury(f)

\* C5 as claimed: in the fallback case, route_claim called with the missing
\* list find_missing_fields computes returns "Fast-track", citing 5000.0.
C5_FallbackFastTrackInPipeline ==
    (RouteReturned /\ FallbackCase(fields) /\ missing = find_missing_fields(fields)) =>
        <<route, reason>> = <<"Fast-track", "Estimated damage 5000.0 < 25000.">>

\* C5, amended: in the fallback case route_claim returns "Fast-track", citing
\* 5000.0, when it is called with an empty missing list; the list
\* find_missing_fields computes is <<"estimated_damage">>, and with it
\* route_claim returns "Manual review".
C5_FallbackFastTrackOnEmptyMissing ==
    (RouteReturned /\ FallbackCase(fields)) =>
        /\ missing = <<>> =>
              <<route, reason>> = <<"Fast-track", "Estimated damage 5000.0 < 25000.">>
        /\ missing = find_missing_fields(fields) =>
              /\ missing = <<"estimated_damage">>
              /\ <<route, reason>> =
                    <<"Manual review", "Missing mandatory fields: estimated_damage">>

C5_Witness ==
    /\ pc = "route_claim returned"
    /\ FallbackCase(fields)
    /\ missing = <<>>
    /\ route = "Fast-track"

Destinations == {"Fast-track", "Manual review", "Investigation Flag", "Specialist Queue"}

\* C6: route_claim returns "Fast-track" exactly when the missing list is
\* empty, no fraud word and no "injury" occur, and est is not zero and below
\* 25000; the justification cites est.  Every other case the first three
\* rules leave is "Manual review", "No specific routing rule matched.".  The
\* destination is one of the four labels.
C6_FastTrackExactly ==
    RouteReturned =>
        /\ route \in Destinations
        /\ route = "Fast-track" <=>
              /\ AmountDecides(fields, missing)
              /\ Estimate(fields) # Zero
              /\ Estimate(fields).i <= 24999
        /\ AmountDecides(fields, missing) => <<route, reason>> = AmountRoute(Estimate(fields))
        /\ (AmountDecides(fields, missing)
              /\ TextOf(fields, "estimated_damage") = <<"$", "1", "2", ",", "0", "0", "0", ".", "0", "0">>) =>
              <<route, reason>> = <<"Fast-track", "Estimated damage 12000.0 < 25000.">>
        /\ TextOf(fields, "estimated_damage") \in {<<"2", "5", "0", "0", "0">>, <<"0">>} => route # "Fast-track"

C6_Witness ==
    /\ pc = "route_claim returned"
    /\ TextOf(fields, "estimated_damage") = <<"$", "1", "2", ",", "0", "0", "0", ".", "0", "0">>
    /\ route = "Fast-track"
    /\ reason = "Estimated damage 12000.0 < 25000."

\* The digits and dots of s, in order.
NumericPart(s) == SelectSeq(s, LAMBDA c : c \in Digit \cup {"."})

\* n, made of digits and dots, is a number: one dot at most and a digit.
IsNumber(n) ==
    /\ \A j, k \in 1..Len(n) : (n[j] = "." /\ n[k] = ".") => j = k
    /\ \E k \in 1..Len(n) : n[k] \in Digit

RECURSIVE Pow10(_)
Pow10(k) == IF k = 0 THEN 1 ELSE 10 * Pow10(k - 1)

\* x times 10^k, for a float x with at most k fraction digits.
Scaled(x, k) ==
    x.i * Pow10(k) + IntOfDigits(x.f) * Pow10(k - Len(x.f))

\* The number of digits of n after its dot.
FractionLen(n) ==
    IF \E k \in 1..Len(n) : n[k] = "."
    THEN Len(n) - (CHOOSE k \in 1..Len(n) : n[k] = ".")
    ELSE 0

\* C7: parse_amount returns a number for None and for every string: 0.0 for
\* None, for the empty string and when the digits and dots of the string are
\* none or no number, the value of the digits and dots otherwise.
C7_ParseAmountTotal ==
    pc = "parse_amount returned" =>
        LET n == IF arg = None THEN <<>> ELSE NumericPart(arg)
        IN  /\ est.i \in Nat
            /\ \A k \in 1..Len(est.f) : est.f[k] \in Digit
            /\ est.f # <<>> => est.f[Len(est.f)] # "0"
            /\ ~IsNumber(n) => est = Zero
            /\ IsNumber(n) =>
                  /\ Len(est.f) <= FractionLen(n)
                  /\ Scaled(est, FractionLen(n)) =
                        IntOfDigits(SelectSeq(n, LAMBDA c : c \in Digit))
            /\ arg = <<"$", "1", ",", "2", "3", "4", ".", "5", "6">> => est = [i |-> 1234, f |-> <<"5", "6">>]
            /\ arg \in {<<"a", "b", "c">>, <<".">>, <<"1", ".", "2", ".", "3">>} => est = Zero

C7_Witness ==
    /\ pc = "parse_amount returned"
    /\ arg = <<"$", "1", ",", "2", "3", "4", ".", "5", "6">>
    /\ est = [i |-> 1234, f |-> <<"5", "6">>]


\* extract_fields has returned fields for text.
Extracted == pc \in {"find_missing_fields", "route_claim", "return", "returned"}

PatternKeys == FieldNames \ {"asset_type", "attachments"}

\* v has no whitespace at its ends.
Trimmed(v) == v = <<>> \/ (v[1] \notin Space /\ v[Len(v)] \notin Space)

\* C8: for every text, the empty one included, extract_fields returns a
\* mapping whose keys are the 16 catalog names; asset_type is "Vehicle";
\* attachments is "Yes" when "ATTACHMENT" occurs in the text in any case and
\* "Unknown" otherwise, so neither key is ever in missingFields; every other
\* value is None or a trimmed string, None when the text is empty.
C8_ExtractedKeysAndConstants ==
    Extracted =>
        /\ DOMAIN fields = FieldNames
        /\ Cardinality(DOMAIN fields) = 16
        /\ fields["asset_type"] = <<"V", "e", "h", "i", "c", "l", "e">>
        /\ fields["attachments"] =
              IF OccursIn(<<"A", "T", "T", "A", "C", "H", "M", "E", "N", "T">>, text) THEN <<"Y", "e", "s">> ELSE <<"U", "n", "k", "n", "o", "w", "n">>
        /\ \A k \in PatternKeys : fields[k] = None \/ Trimmed(fields[k])
        /\ text = <<>> => \A k \in PatternKeys : fields[k] = None
        /\ pc # "find_missing_fields" =>
              \A j \in 1..Len(missing) : missing[j] \notin {"asset_type", "attachments"}

C8_Witness ==
    /\ pc = "returned"
    /\ text = <<>>
    /\ fields["attachments"] = <<"U", "n", "k", "n", "o", "w", "n">>
    /\ Len(missing) = 14

\* The positions of t at which label starts, in any case.
LabelStarts(label, t) ==
    {i \in 1..(Len(t) - Len(label) + 1) :
        \A k \in 1..Len(label) : t[i + k - 1] \in BothCases(label[k])}

Min(S) == CHOOSE x \in S : \A y \in S : x <= y

\* The line breaks of t from position i on.
BreaksFrom(t, i) == {j \in i..Len(t) : t[j] = "\n"}

\* label occurs in t and the line of its first occurrence is not the last.
HasFollowingLine(label, t) ==
    /\ LabelStarts(label, t) # {}
    /\ BreaksFrom(t, Min(LabelStarts(label, t))) # {}

\* The line after the line of the first occurrence of label.
FollowingLine(label, t) ==
    LET b == Min(BreaksFrom(t, Min(LabelStarts(label, t))))
        e == IF BreaksFrom(t, b + 1) = {} THEN Len(t) + 1 ELSE Min(BreaksFrom(t, b + 1))
    IN  SubSeq(t, b + 1, e - 1)

\* C9 as claimed: where "NAME OF INSURED" (resp. "LOCATION OF LOSS") is on a
\* line that another line follows, policyholder_name (resp.
\* incident_location) is that following line, trimmed: it has no line break
\* and nothing of a later line.
C9_FollowingLineOnly ==
    Extracted =>
        /\ HasFollowingLine(<<"N", "A", "M", "E", " ", "O", "F", " ", "I", "N", "S", "U", "R", "E", "D">>, text) =>
              fields["policyholder_name"] = Strip(FollowingLine(<<"N", "A", "M", "E", " ", "O", "F", " ", "I", "N", "S", "U", "R", "E", "D">>, text))
        /\ HasFollowingLine(<<"L", "O", "C", "A", "T", "I", "O", "N", " ", "O", "F", " ", "L", "O", "S", "S">>, text) =>
              fields["incident_location"] = Strip(FollowingLine(<<"L", "O", "C", "A", "T", "I", "O", "N", " ", "O", "F", " ", "L", "O", "S", "S">>, text))

\* The stages process_fnol runs, in order.
Stages == << "pdf_to_text", "extract_fields", "find_missing_fields", "route_claim" >>

\* The pc of process_fnol after its first n stages.
PcAfter(n) ==
    CASE n = 1 -> {"extract_fields", "raised"}
      [] n = 2 -> {"find_missing_fields"}
      [] n = 3 -> {"route_claim"}
      [] n = 4 -> {"return", "returned"}

InProcessFnol == calls # <<>>

\* The text of the pages, a page without text counting as an empty line.
RECURSIVE PagesText(_)
PagesText(pages) ==
    IF pages = <<>> THEN <<>>
    ELSE (IF Len(pages) > 1 THEN PagesText(SubSeq(pages, 1, Len(pages) - 1)) \o <<"\n">>
          ELSE <<>>)
         \o (IF pages[Len(pages)] = None THEN <<>> ELSE pages[Len(pages)])

\* C10: a process_fnol call runs pdf_to_text, extract_fields,
\* find_missing_fields and route_claim once each, in this order, and ends
\* either with a ClaimResult of four members, where missingFields is
\* find_missing_fields(extractedFields) and the route and the reasoning are
\* route_claim(extractedFields, missingFields), or with the error pdf_to_text
\* raises, after which no stage runs and there is no ClaimResult.  A page
\* without text is an empty string and no error.
C10_AllOrNothing ==
    /\ InProcessFnol =>
          /\ calls = SubSeq(Stages, 1, Len(calls))
          /\ pc \in PcAfter(Len(calls))
    /\ pc # "returned" => result = NoResult
    /\ (InProcessFnol /\ pc # "raised") =>
          /\ doc.opens
          /\ text = PagesText(doc.pages)
    /\ pc = "raised" =>
          /\ ~doc.opens
          /\ calls = <<"pdf_to_text">>
          /\ fields = NoFields /\ missing = <<>> /\ route = "" /\ reason = ""
    /\ pc = "returned" =>
          /\ calls = Stages
          /\ DOMAIN result = {"returned", "extractedFields", "missingFields",
                              "recommendedRoute", "reasoning"}
          /\ result.extractedFields = fields
          /\ result.missingFields = find_missing_fields(result.extractedFields)
          /\ <<result.recommendedRoute, result.reasoning>> =
                route_claim(result.extractedFields, result.missingFields)

C10_Witness ==
    /\ pc = "returned"
    /\ Len(doc.pages) = 3
    /\ doc.pages[2] = None
    /\ result.recommendedRoute = "Fast-track"


====
